---- MODULE Spec2Model ----
(***************************************************************************)
(* Position encoders of opennmt/layers/position.py.                        *)
(*                                                                         *)
(* One encoder instance (a PositionEmbedder or a SinusoidalPositionEncoder)*)
(* is shared by two calling threads.  A call of the layer goes through the *)
(* inherited tf.keras.layers.Layer.__call__, which reads self.built, runs  *)
(* build(input_shape) when it is false, sets it, and then runs call(); the *)
(* three steps are separate actions, so two first calls can interleave.    *)
(* encode() is public and is also called directly.                         *)
(*                                                                         *)
(* Tensors are nested sequences.  Weights, sine/cosine values and sums are *)
(* kept symbolic (records naming what was computed), so equality of two    *)
(* tensors means that the same values were computed the same way.          *)
(***************************************************************************)
EXTENDS Integers, Sequences, FiniteSets, TLC

\* ------------------------------------------------------------------ bounds
MaxMaximumPosition == 1   \* maximum_position ranges over 0..MaxMaximumPosition
MaxDepth == 4             \* input depths D range over 1..MaxDepth
MaxBatch == 2             \* batch sizes B range over 1..MaxBatch
MaxTime == 2              \* timesteps T range over 1..MaxTime

Threads == {"t1", "t2"}
Kinds == {"PositionEmbedder", "SinusoidalPositionEncoder"}
\* tf.gather, under tf.nn.embedding_lookup, raises on an out-of-range index on
\* CPU and stores zeros on GPU: the device is a property of the build.
Devices == {"CPU", "GPU"}
Depths == 1..MaxDepth
\* Positions handed in by callers: one below zero, up to one above the largest
\* maximum_position.
PositionValues == (0 - 1)..(MaxMaximumPosition + 1)

NoError == "none"
None == [id |-> 0, shape |-> <<>>, value |-> <<>>]

VARIABLES
  kind,              \* the class of the instance
  reducer,           \* self.reducer
  maximum_position,  \* self.maximum_position (PositionEmbedder)
  device,            \* where the lookup kernel runs
  embeddings,        \* self.embeddings: None or the variable add_weight made
  built,             \* self.built of tf.keras.layers.Layer
  allocs,            \* number of add_weight calls so far
  pc,                \* per thread: "idle", "build" or "call"
  input_dim,         \* per thread: the depth of the inputs of the call in flight
  ret                \* what the call that just ended returned, until its caller takes it

vars == <<kind, reducer, maximum_position, device, embeddings, built, allocs,
          pc, input_dim, ret>>

\* ------------------------------------------------------------ tensor helpers
Min(a, b) == IF a <= b THEN a ELSE b

\* The shape of a 3-D tensor.
Shape3(x) ==
  IF Len(x) = 0 THEN <<0, 0, 0>>
  ELSE IF Len(x[1]) = 0 THEN <<Len(x), 0, 0>>
  ELSE <<Len(x), Len(x[1]), Len(x[1][1])>>

\* The inputs of a call: a [B, T, D] tensor whose elements are opaque values,
\* one per coordinate.
Inputs(B, T, D) == [b \in 1..B |-> [t \in 1..T |-> [c \in 1..D |-> <<b, t, c>>]]]

\* tf.range(timesteps) + 1
range_plus_1(timesteps) == [i \in 1..timesteps |-> i]

\* tf.tile(x, [batch_size, 1, 1]): x repeated batch_size times along axis 0.
tile(x, batch_size) ==
  [b \in 1..(batch_size * Len(x)) |-> x[((b - 1) % Len(x)) + 1]]

\* tf.minimum(positions, m), elementwise on a 2-D list of positions.
minimum(positions, m) ==
  [b \in 1..Len(positions) |->
     [i \in 1..Len(positions[b]) |-> Min(positions[b][i], m)]]

\* The value the initializer gave weight (r, c) of the id-th variable created.
Weight(id, r, c) == [var |-> id, row |-> r, col |-> c]
ZeroWeight == [var |-> 0, row |-> 0, col |-> 0]

\* self.add_weight("w_embs", shape): a new variable, the id-th one created.
add_weight(id, shape) ==
  [id |-> id, shape |-> shape,
   value |-> [r \in 1..shape[1] |-> [c \in 1..shape[2] |-> Weight(id, r - 1, c)]]]

\* tf.nn.embedding_lookup(params, ids) for a 2-D ids.
embedding_lookup(params, ids, dev) ==
  LET rows == IF params = None THEN 0 ELSE params.shape[1]
      InRange(p) == p \in 0..(rows - 1)
      bad == \E b \in 1..Len(ids) : \E i \in 1..Len(ids[b]) : ~InRange(ids[b][i])
  IN  IF params = None
        THEN [err |-> "ValueError", value |-> <<>>]
      ELSE IF bad /\ dev = "CPU"
        THEN [err |-> "InvalidArgumentError", value |-> <<>>]
      ELSE [err |-> NoError,
            value |-> [b \in 1..Len(ids) |->
                        [i \in 1..Len(ids[b]) |->
                           IF InRange(ids[b][i])
                             THEN params.value[ids[b][i] + 1]
                             ELSE [c \in 1..params.shape[2] |-> ZeroWeight]]]]

\* ---------------------------------------------------------- PositionEmbedder
\* PositionEmbedder.build: the table created for this input depth.
PositionEmbedder_build(m, id, input_depth) ==
  add_weight(id, <<m + 1, input_depth>>)

\* PositionEmbedder.encode clamping to one above maximum_position.
PositionEmbedder_encode_ClampOffByOne(emb, m, dev, positions, depth) ==
  LET clamped == minimum(positions, m + 1)
      r == embedding_lookup(emb, clamped, dev)
  IN  [err |-> r.err,
       lookups |-> IF emb = None THEN <<>> ELSE clamped,
       value |-> r.value]

\* PositionEmbedder.encode without the clamp.
PositionEmbedder_encode_NoClamp(emb, m, dev, positions, depth) ==
  LET r == embedding_lookup(emb, positions, dev)
  IN  [err |-> r.err,
       lookups |-> IF emb = None THEN <<>> ELSE positions,
       value |-> r.value]

\* PositionEmbedder.encode: [err, lookups (the indices looked up), value].
PositionEmbedder_encode(emb, m, dev, positions, depth) ==
  LET clamped == minimum(positions, m)
      r == embedding_lookup(emb, clamped, dev)
  IN  [err |-> r.err,
       lookups |-> IF emb = None THEN <<>> ELSE clamped,
       value |-> r.value]

\* ------------------------------------------------- SinusoidalPositionEncoder
\* SinusoidalPositionEncoder.encode without the check of the depth's parity.
SinusoidalPositionEncoder_encode_NoParityCheck(positions, depth) ==
  LET half == depth \div 2
      sin(p) == [k \in 1..half |-> [fn |-> "sin", pos |-> p, channel |-> k - 1]]
      cos(p) == [k \in 1..half |-> [fn |-> "cos", pos |-> p, channel |-> k - 1]]
  IN  IF half - 1 = 0
        THEN [err |-> "ZeroDivisionError", lookups |-> <<>>, value |-> <<>>]
      ELSE [err |-> NoError, lookups |-> <<>>,
            value |-> [b \in 1..Len(positions) |->
                        [i \in 1..Len(positions[b]) |->
                           sin(positions[b][i]) \o cos(positions[b][i])]]]

\* SinusoidalPositionEncoder.encode.  half stands for depth / 2; channel k of
\* the sine half is sin(position * exp(-k * log_timescale_increment)).
SinusoidalPositionEncoder_encode(positions, depth) ==
  LET half == depth \div 2
      sin(p) == [k \in 1..half |-> [fn |-> "sin", pos |-> p, channel |-> k - 1]]
      cos(p) == [k \in 1..half |-> [fn |-> "cos", pos |-> p, channel |-> k - 1]]
  IN  IF depth % 2 # 0
        THEN [err |-> "ValueError", lookups |-> <<>>, value |-> <<>>]
      ELSE IF half - 1 = 0
        THEN [err |-> "ZeroDivisionError", lookups |-> <<>>, value |-> <<>>]
      ELSE [err |-> NoError, lookups |-> <<>>,
            value |-> [b \in 1..Len(positions) |->
                        [i \in 1..Len(positions[b]) |->
                           sin(positions[b][i]) \o cos(positions[b][i])]]]

\* self.encode(positions, depth), dispatched on the class of self.
encode(k, emb, m, dev, positions, depth) ==
  IF k = "PositionEmbedder"
    THEN PositionEmbedder_encode(emb, m, dev, positions, depth)
    ELSE SinusoidalPositionEncoder_encode(positions, depth)

\* ------------------------------------------------------------------- reducer
\* SumReducer of opennmt/layers/reducer.py: the elementwise sum of two tensors
\* of the same shape.
SumReducer(a, b) ==
  IF Shape3(a) # Shape3(b)
    THEN [err |-> "ShapeError", value |-> <<>>]
    ELSE [err |-> NoError,
          value |-> [i \in 1..Len(a) |-> [j \in 1..Len(a[i]) |->
                      [c \in 1..Len(a[i][j]) |->
                         [lhs |-> a[i][j][c], rhs |-> b[i][j][c]]]]]]

\* PositionEncoder.call generating the positions even when one is given.
call_IgnoringPosition(k, emb, m, dev, inputs, given, position) ==
  LET batch_size == Shape3(inputs)[1]
      timesteps == Shape3(inputs)[2]
      depth == Shape3(inputs)[3]
      positions == range_plus_1(timesteps)
      enc == encode(k, emb, m, dev, <<positions>>, depth)
      tiled == tile(enc.value, batch_size)
      red == SumReducer(inputs, tiled)
  IN  [op |-> "apply", depth |-> depth, given |-> given,
       position |-> IF given THEN position ELSE 0,
       inputs |-> inputs,
       positions |-> <<positions>>,
       lookups |-> enc.lookups,
       handed |-> enc.err = NoError,
       encoding |-> IF enc.err = NoError THEN tiled ELSE <<>>,
       out |-> IF enc.err = NoError THEN red.value ELSE <<>>,
       err |-> IF enc.err # NoError THEN enc.err ELSE red.err]

\* ------------------------------------------------------ PositionEncoder.call
\* given = FALSE stands for position=None.
call(k, emb, m, dev, inputs, given, position) ==
  LET batch_size == Shape3(inputs)[1]
      timesteps == Shape3(inputs)[2]
      depth == Shape3(inputs)[3]
      positions == IF ~given THEN range_plus_1(timesteps) ELSE <<position>>
      enc == encode(k, emb, m, dev, <<positions>>, depth)
      tiled == tile(enc.value, batch_size)
      red == SumReducer(inputs, tiled)
  IN  [op |-> "apply", depth |-> depth, given |-> given,
       position |-> IF given THEN position ELSE 0,
       inputs |-> inputs,
       positions |-> <<positions>>,
       lookups |-> enc.lookups,
       handed |-> enc.err = NoError,
       encoding |-> IF enc.err = NoError THEN tiled ELSE <<>>,
       out |-> IF enc.err = NoError THEN red.value ELSE <<>>,
       err |-> IF enc.err # NoError THEN enc.err ELSE red.err]

\* A direct call of encode, reported in the same form.
encode_call(k, emb, m, dev, positions, depth) ==
  LET enc == encode(k, emb, m, dev, positions, depth)
  IN  [op |-> "encode", depth |-> depth, given |-> TRUE, position |-> 0,
       inputs |-> <<>>,
       positions |-> positions,
       lookups |-> enc.lookups,
       handed |-> FALSE,
       encoding |-> enc.value,
       out |-> <<>>,
       err |-> enc.err]

NoRet ==
  [op |-> "none", depth |-> 0, given |-> FALSE, position |-> 0, inputs |-> <<>>,
   positions |-> <<>>, lookups |-> <<>>, handed |-> FALSE, encoding |-> <<>>,
   out |-> <<>>, err |-> NoError]

\* --------------------------------------------------------------------- state
\* After __init__: the reducer and maximum_position are set, embeddings is
\* None, the layer is not built.
Init ==
  /\ kind \in Kinds
  /\ reducer = "SumReducer"
  /\ maximum_position \in
       (IF kind = "PositionEmbedder" THEN 0..MaxMaximumPosition ELSE {0})
  /\ device \in (IF kind = "PositionEmbedder" THEN Devices ELSE {"CPU"})
  /\ embeddings = None
  /\ built = FALSE
  /\ allocs = 0
  /\ pc = [t \in Threads |-> "idle"]
  /\ input_dim = [t \in Threads |-> 0]
  /\ ret = NoRet

\* Layer.__call__, first step: the depth of the inputs is known and self.built
\* is read.
Begin(t) ==
  /\ ret = NoRet
  /\ pc[t] = "idle"
  /\ \E d \in Depths :
       /\ input_dim' = [input_dim EXCEPT ![t] = d]
       /\ pc' = [pc EXCEPT ![t] = IF built THEN "call" ELSE "build"]
  /\ ret' = NoRet
  /\ UNCHANGED <<kind, reducer, maximum_position, device, embeddings, built, allocs>>

\* Layer.__call__, second step when self.built was false: build(input_shape),
\* then self.built = True.
Build(t) ==
  /\ ret = NoRet
  /\ pc[t] = "build"
  /\ IF kind = "PositionEmbedder"
       THEN /\ embeddings' = PositionEmbedder_build(maximum_position, allocs + 1, input_dim[t])
            /\ allocs' = allocs + 1
       ELSE UNCHANGED <<embeddings, allocs>>
  /\ built' = TRUE
  /\ pc' = [pc EXCEPT ![t] = "call"]
  /\ ret' = NoRet
  /\ UNCHANGED <<kind, reducer, maximum_position, device, input_dim>>

\* Layer.__call__, last step: call(inputs, position).  The batch size, the
\* timesteps and the position of the caller are read here for the first time.
Call(t) ==
  /\ ret = NoRet
  /\ pc[t] = "call"
  /\ \E B \in 1..MaxBatch, T \in 1..MaxTime, given \in BOOLEAN, p \in PositionValues :
       /\ (~given => p = 0)
       /\ ret' = call(kind, embeddings, maximum_position, device,
                      Inputs(B, T, input_dim[t]), given, p)
  /\ pc' = [pc EXCEPT ![t] = "idle"]
  /\ input_dim' = [input_dim EXCEPT ![t] = 0]
  /\ UNCHANGED <<kind, reducer, maximum_position, device, embeddings, built, allocs>>

\* encode(positions, depth) called directly with positions of shape [1, n].
Encode ==
  /\ ret = NoRet
  /\ \E n \in 1..MaxTime, d \in Depths :
       \E ps \in [1..n -> PositionValues] :
         ret' = encode_call(kind, embeddings, maximum_position, device, <<ps>>, d)
  /\ UNCHANGED <<kind, reducer, maximum_position, device, embeddings, built, allocs,
                 pc, input_dim>>

\* The caller takes what the call returned.  ret is only an observation of the
\* last completed call: no step reads it, so taking it at once leaves out no
\* interleaving of the steps that touch the instance.
Return ==
  /\ ret # NoRet
  /\ ret' = NoRet
  /\ UNCHANGED <<kind, reducer, maximum_position, device, embeddings, built, allocs,
                 pc, input_dim>>

Next ==
  \/ \E t \in Threads : Begin(t)
  \/ \E t \in Threads : Build(t)
  \/ \E t \in Threads : Call(t)
  \/ Encode
  \/ Return

Spec == Init /\ [][Next]_vars

\* ==================================================================== claims
IsEmbedder == kind = "PositionEmbedder"
IsSinusoidal == kind = "SinusoidalPositionEncoder"
Returned == ret.op # "none"
\* All (batch, index) places of a 2-D list.
Places(x) == UNION {{<<b, i>> : i \in 1..Len(x[b])} : b \in 1..Len(x)}

\* C1 (as claimed): a built PositionEmbedder has allocated its table exactly
\* once, whatever calls were made, concurrent first calls included.
C1_TableAllocatedOnce ==
  IsEmbedder => (allocs <= 1 /\ (built => allocs = 1))

\* C2: SinusoidalPositionEncoder.encode with an odd depth ends in ValueError and
\* returns no encoding, and apply on inputs of odd depth ends in the same error
\* with nothing handed to the reducer and no output.
C2_OddDepthFails ==
  (IsSinusoidal /\ Returned /\ ret.depth % 2 = 1) =>
     /\ ret.err = "ValueError"
     /\ ret.encoding = <<>>
     /\ ~ret.handed
     /\ ret.out = <<>>

C2_Witness ==
  /\ IsSinusoidal
  /\ ret.op = "apply"
  /\ ret.depth % 2 = 1
  /\ ret.err = "ValueError"

\* C3 (as claimed): every index a PositionEmbedder looks up lies in
\* 0..maximum_position, for every positions argument.
C3_LookupsInRange ==
  (IsEmbedder /\ Returned) =>
     \A pl \in Places(ret.lookups) :
        ret.lookups[pl[1]][pl[2]] \in 0..maximum_position

\* C3 (amended): every index a PositionEmbedder looks up is at most
\* maximum_position, and lies in 0..maximum_position whenever the position it
\* comes from is not negative (as it is when apply generates the positions).
C3_LookupsAtMostMaximum ==
  (IsEmbedder /\ Returned) =>
     /\ \A pl \in Places(ret.lookups) :
          /\ ret.lookups[pl[1]][pl[2]] <= maximum_position
          /\ ret.positions[pl[1]][pl[2]] >= 0 =>
               ret.lookups[pl[1]][pl[2]] \in 0..maximum_position
     /\ (ret.op = "apply" /\ ~ret.given) =>
          \A pl \in Places(ret.lookups) :
             ret.lookups[pl[1]][pl[2]] \in 0..maximum_position

C3_Witness ==
  /\ IsEmbedder
  /\ Returned
  /\ \E pl \in Places(ret.lookups) :
       /\ ret.positions[pl[1]][pl[2]] > maximum_position
       /\ ret.lookups[pl[1]][pl[2]] = maximum_position

\* C4: PositionEmbedder.encode returns, for every position p greater than
\* maximum_position, row maximum_position of the table, and for every p in
\* 0..maximum_position, row p of the table.
C4_ClampedRows ==
  (IsEmbedder /\ ret.op = "encode" /\ ret.err = NoError) =>
     \A pl \in Places(ret.positions) :
        LET p == ret.positions[pl[1]][pl[2]]
            row == ret.encoding[pl[1]][pl[2]]
        IN  /\ p > maximum_position => row = embeddings.value[maximum_position + 1]
            /\ p \in 0..maximum_position => row = embeddings.value[p + 1]

C4_Witness ==
  /\ IsEmbedder
  /\ ret.op = "encode"
  /\ ret.err = NoError
  /\ maximum_position > 0
  /\ \E pl \in Places(ret.positions) : ret.positions[pl[1]][pl[2]] > maximum_position
  /\ \E pl \in Places(ret.positions) : ret.positions[pl[1]][pl[2]] = 0

\* C5 (as claimed): SinusoidalPositionEncoder.encode with depth 2 is rejected
\* with the error of the odd-depth check (ValueError), not by the division.
C5_DepthTwoRejected ==
  (IsSinusoidal /\ Returned /\ ret.depth = 2) => ret.err = "ValueError"

\* C6 (as claimed): once the table is built, a call of encode or apply with
\* another depth ends in an error, and no encoding of a depth other than the
\* requested one is produced.
C6_DepthMismatchFails ==
  (IsEmbedder /\ Returned /\ embeddings # None /\ ret.depth # embeddings.shape[2]) =>
     /\ ret.err # NoError
     /\ ret.encoding = <<>>

\* C7 (as claimed): apply without position passes [[1, ..., T]] to encode, and
\* the encoding handed to the reducer has the shape [B, T, D] of the inputs
\* and B identical batch rows.
C7_GeneratedPositions ==
  (ret.op = "apply" /\ ~ret.given) =>
     /\ ret.positions = <<[i \in 1..Shape3(ret.inputs)[2] |-> i]>>
     /\ ret.handed =>
          /\ Shape3(ret.encoding) = Shape3(ret.inputs)
          /\ \A b \in 1..Len(ret.encoding) : ret.encoding[b] = ret.encoding[1]

\* C8 (as claimed): apply with position p on inputs of shape [B, 1, D] passes
\* the single index p to encode, hands the reducer an encoding of shape
\* [B, 1, D] whose rows all are the encoding of p, and returns for each batch
\* row what apply returns for that row alone.
C8_ExplicitPosition ==
  (ret.op = "apply" /\ ret.given /\ Shape3(ret.inputs)[2] = 1) =>
     /\ ret.positions = << <<ret.position>> >>
     /\ ret.handed =>
          /\ Shape3(ret.encoding) = Shape3(ret.inputs)
          /\ \A b \in 1..Len(ret.encoding) :
               ret.encoding[b] =
                 encode(kind, embeddings, maximum_position, device,
                        << <<ret.position>> >>, ret.depth).value[1]
     /\ \A b \in 1..Len(ret.inputs) :
          LET alone == call(kind, embeddings, maximum_position, device,
                            <<ret.inputs[b]>>, TRUE, ret.position)
          IN  /\ alone.err = ret.err
              /\ ret.err = NoError => ret.out[b] = alone.out[1]

\* C9 (as claimed): no step changes maximum_position or the reducer, a
\* SinusoidalPositionEncoder never gets a table, and a table once built is
\* never replaced, changed or dropped.
C9_Frame ==
  [][ /\ maximum_position' = maximum_position
      /\ reducer' = reducer
      /\ (IsSinusoidal => embeddings' = None)
      /\ (embeddings # None => embeddings' = embeddings) ]_vars

\* The same apply call made as the first call on a new instance of the same
\* configuration.
FirstCall(r) ==
  call(kind,
       IF IsEmbedder THEN PositionEmbedder_build(maximum_position, 1, r.depth) ELSE None,
       maximum_position, device, r.inputs, r.given, r.position)

\* C10 (as claimed): an apply call fails, and with which error, exactly as the
\* same call does on a new instance of the same configuration, whatever calls
\* were made before it.
C10_SameAsFirstCall ==
  ret.op = "apply" => ret.err = FirstCall(ret).err

\* The error of an apply call as a function of the configuration (class,
\* maximum_position, device), the arguments and the depth of the table read.
ExpectedError(k, m, dev, table_depth, T, D, given, p) ==
  IF k = "SinusoidalPositionEncoder"
    THEN IF D % 2 = 1 THEN "ValueError"
         ELSE IF D = 2 THEN "ZeroDivisionError"
         ELSE IF given /\ T # 1 THEN "ShapeError"
         ELSE NoError
    ELSE IF given /\ p < 0 /\ dev = "CPU" THEN "InvalidArgumentError"
         ELSE IF table_depth # D \/ (given /\ T # 1) THEN "ShapeError"
         ELSE NoError

\* C10 (amended): whether an apply call fails, and with which error, is a
\* function of the configuration, the arguments of the call and, for a
\* PositionEmbedder, the depth of the table the call reads (set by an earlier
\* build); for a SinusoidalPositionEncoder it is a function of the arguments.
C10_ErrorIsFunction ==
  ret.op = "apply" =>
     ret.err = ExpectedError(kind, maximum_position, device,
                             IF IsEmbedder THEN embeddings.shape[2] ELSE 0,
                             Shape3(ret.inputs)[2], ret.depth, ret.given, ret.position)

C10_Witness ==
  /\ IsEmbedder
  /\ ret.op = "apply"
  /\ ret.depth # embeddings.shape[2]
  /\ ret.err = "ShapeError"
  /\ FirstCall(ret).err = NoError
====
